---------------------------- MODULE Spec2Model ----------------------------
(***************************************************************************)
(* BinaryManipulator: bit-field Patterns (mask, shift, logical type) over  *)
(* fixed-width integers, Descriptions composed of Patterns, and the        *)
(* derived half / quarter layouts (BinaryManipulation.h).                  *)
(*                                                                         *)
(* An integer value of a C++ type is its two's complement bit pattern,     *)
(* written as the set of positions of its 1 bits (bit 0 is the least       *)
(* significant).  The representation is exact for every width up to 64.    *)
(* A machine state is one use of the library: a backing type T is chosen,  *)
(* a Pattern or Description type is instantiated over it, and one of its   *)
(* static member functions (or a function of the header built on it) is    *)
(* called on chosen arguments, alone or on the result of another call.     *)
(* An instantiation or call that the compiler rejects is recorded in       *)
(* illFormed; a read through a dangling reference is a choice among the    *)
(* values builds of the program read.                                      *)
(***************************************************************************)
EXTENDS Integers, Sequences, FiniteSets

VARIABLES
    T,       \* the backing type (DataType) of the instantiated templates
    kind,    \* which template alias instantiated desc ("none" before)
    desc,    \* the sequence of Patterns instantiated (one Pattern, or the Patterns... of a Description)
    params,  \* the position arguments of the alias template instantiated (FieldVector, FieldRange)
    pc,      \* "define", "ready", or the name of the member function that was called
    value,   \* the DataType argument of the call (decode input / encode base)
    inputs,  \* the SliceType arguments of the call, one per Pattern
    result,  \* what the call returned
    illFormed \* the instantiation or call just written is ill-formed: the program does not compile

vars == <<T, kind, desc, params, pc, value, inputs, result, illFormed>>

(***************************************************************************)
(* Integer types                                                           *)
(***************************************************************************)
CHAR_BIT == 8

UnsignedTypes == {"uint8_t", "uint16_t", "uint32_t", "uint64_t"}
SignedTypes == {"int8_t", "int16_t", "int32_t", "int64_t"}
BackingTypes == UnsignedTypes \cup SignedTypes

Sizeof(t) ==
    CASE t \in {"uint8_t", "int8_t", "bool"} -> 1
      [] t \in {"uint16_t", "int16_t"} -> 2
      [] t \in {"uint32_t", "int32_t"} -> 4
      [] t \in {"uint64_t", "int64_t"} -> 8

\* template<typename T> constexpr auto BitCount = sizeof(T) * CHAR_BIT; BitCount<bool> = 1
BitCount(t) == IF t = "bool" THEN 1 ELSE Sizeof(t) * CHAR_BIT

IsSigned(t) == t \in SignedTypes

\* IsBoolType<T>
IsBoolType(t) == t = "bool"

\* the bit positions of a value of type t
BitsOf(t) == 0 .. (BitCount(t) - 1)

\* the sign bit position of a type
TopBit(t) == BitCount(t) - 1

(***************************************************************************)
(* C++ integer semantics on bit patterns                                   *)
(***************************************************************************)
\* integral promotion: every type narrower than int is promoted to int
PromotedType(t) == IF BitCount(t) < BitCount("int32_t") THEN "int32_t" ELSE t

\* integral conversion from type `from` to type `to`: sign- or zero-extension
\* to a wider type, truncation modulo 2^w to a narrower one, != 0 to bool
Convert(b, from, to) ==
    IF to = "bool" THEN (IF b = {} THEN {} ELSE {0})
    ELSE LET ext == IF IsSigned(from) /\ TopBit(from) \in b
                    THEN b \cup (BitCount(from) .. TopBit(to))
                    ELSE b
         IN  ext \cap BitsOf(to)

Promote(b, t) == Convert(b, t, PromotedType(t))

BitAnd(a, b) == a \cap b
BitOr(a, b) == a \cup b
\* ~a evaluated in type t
BitNot(a, t) == BitsOf(t) \ a
\* a << n evaluated in type t (bits shifted out of the type are lost)
ShiftLeft(a, n, t) == {i + n : i \in a} \cap BitsOf(t)
\* a >> n evaluated in type t: arithmetic for a negative signed value
ShiftRight(a, n, t) ==
    {i - n : i \in {j \in a : j >= n}}
      \cup (IF IsSigned(t) /\ TopBit(t) \in a
            THEN {i \in BitsOf(t) : i > TopBit(t) - n} ELSE {})

\* the bit pattern of a literal 0 <= n < 2^31
RECURSIVE LitBits(_, _)
LitBits(n, i) == IF n = 0 THEN {}
                 ELSE (IF n % 2 = 1 THEN {i} ELSE {}) \cup LitBits(n \div 2, i + 1)
Lit(n) == LitBits(n, 0)

True == {0}
False == {}

(***************************************************************************)
(* decode / encode (the free function templates) and Pattern               *)
(***************************************************************************)
\* decode with the shift applied before the mask: (value >> shift) & mask
decodeMutShiftThenMask(t, r, mask, shift, v) ==
    LET p == PromotedType(t)
    IN  IF IsBoolType(r)
        THEN Convert(BitAnd(Promote(v, t), Promote(mask, t)), p, "bool")
        ELSE Convert(BitAnd(ShiftRight(Promote(v, t), shift, p), Promote(mask, t)), p, r)

\* decode without the boolean case: a bool is made of the shifted value too
decodeMutNoBoolCase(t, r, mask, shift, v) ==
    LET p == PromotedType(t)
    IN  Convert(ShiftRight(BitAnd(Promote(v, t), Promote(mask, t)), shift, p), p, r)

\* template<typename T, typename R, T mask, T shift> constexpr R decode(T value)
decode(t, r, mask, shift, v) ==
    LET p == PromotedType(t)
        masked == BitAnd(Promote(v, t), Promote(mask, t))
    IN  IF IsBoolType(r)
        THEN Convert(masked, p, "bool")
        ELSE Convert(ShiftRight(masked, shift, p), p, r)

\* what encode puts under the mask, as the source computes it
EncodedBits(t, r, mask, shift, input) ==
    IF IsBoolType(r)
    THEN (IF input # False THEN Promote(mask, t) ELSE {})
    ELSE BitAnd(ShiftLeft(Promote(Convert(input, r, t), t), shift, PromotedType(t)),
                Promote(mask, t))

\* encode that does not clear the old bits: result = value
encodeMutNoClear(t, r, mask, shift, v, input) ==
    Convert(BitOr(Promote(v, t), EncodedBits(t, r, mask, shift, input)), PromotedType(t), t)

\* encode that keeps the masked bits instead of the others: result = value & mask
encodeMutNoComplement(t, r, mask, shift, v, input) ==
    Convert(BitOr(BitAnd(Promote(v, t), Promote(mask, t)),
                  EncodedBits(t, r, mask, shift, input)),
            PromotedType(t), t)

\* encode that does not mask the shifted input: result | (input << shift)
encodeMutNoMask(t, r, mask, shift, v, input) ==
    LET p == PromotedType(t)
        res == BitAnd(Promote(v, t), BitNot(Promote(mask, t), p))
    IN  IF IsBoolType(r)
        THEN Convert(IF input # False THEN BitOr(res, Promote(mask, t)) ELSE res, p, t)
        ELSE Convert(BitOr(res, ShiftLeft(Promote(Convert(input, r, t), t), shift, p)), p, t)

\* encode that toggles the field's bits in base instead of replacing them:
\* value ^ ((input << shift) & mask)
encodeMutToggle(t, r, mask, shift, v, input) ==
    LET p == PromotedType(t)
        bits == EncodedBits(t, r, mask, shift, input)
    IN  Convert((Promote(v, t) \ bits) \cup (bits \ Promote(v, t)), p, t)

\* encode that writes a boolean as the number 1 shifted into place
encodeMutBoolAsNumeric(t, r, mask, shift, v, input) ==
    LET p == PromotedType(t)
        res == BitAnd(Promote(v, t), BitNot(Promote(mask, t), p))
    IN  Convert(BitOr(res, BitAnd(ShiftLeft(Promote(Convert(input, r, t), t), shift, p),
                                  Promote(mask, t))),
                p, t)

\* template<typename T, typename R, T mask, T shift> constexpr T encode(T value, R input)
encode(t, r, mask, shift, v, input) ==
    LET p == PromotedType(t)
        res == BitAnd(Promote(v, t), BitNot(Promote(mask, t), p))
    IN  IF IsBoolType(r)
        THEN Convert(IF input # False THEN BitOr(res, Promote(mask, t)) ELSE res, p, t)
        ELSE Convert(BitOr(res, BitAnd(ShiftLeft(Promote(Convert(input, r, t), t), shift, p),
                                       Promote(mask, t))),
                     p, t)

\* class Pattern<T, R, mask, shift>: its compile-time parameters
Pattern(r, mask, shift) == [SliceType |-> r, Mask |-> mask, Shift |-> shift]

\* Pattern::decode(DataType input)
PatternDecode(t, pat, v) == decode(t, pat.SliceType, pat.Mask, pat.Shift, v)
\* Pattern::encode(DataType value, SliceType input)
PatternEncode(t, pat, v, input) == encode(t, pat.SliceType, pat.Mask, pat.Shift, v, input)
\* Pattern::encode(SliceType input)
PatternEncodeZero(t, pat, input) == PatternEncode(t, pat, Convert(Lit(0), "int32_t", t), input)

\* NoCastPattern<T, mask, shift>, BoolPattern<T, mask, shift>
NoCastPattern(t, mask, shift) == Pattern(t, mask, shift)
BoolPattern(t, mask, shift) == Pattern("bool", mask, shift)

\* Flag whose mask is one position too high: 1 << (position + 1)
FlagMutOffByOne(t, position) ==
    [SliceType |-> "bool", Mask |-> {position + 1} \cap BitsOf(t), Shift |-> position]

\* Flag<T, position> = BoolPattern<T, static_cast<T>(1) << position, position>
Flag(t, position) ==
    BoolPattern(t,
                Convert(ShiftLeft(Promote(Convert(Lit(1), "int32_t", t), t), position,
                                  PromotedType(t)),
                        PromotedType(t), t),
                position)

\* a - 1 evaluated in type t (an unsigned type wraps around)
MinusOne(a, t) ==
    IF a = {} THEN BitsOf(t)
    ELSE LET low == CHOOSE i \in a : \A j \in a : i <= j
         IN  (a \ {low}) \cup (0 .. (low - 1))

\* whether computeMaskFromLength<T>(length, offset) is a constant expression:
\* ((one << length) - one) << offset is evaluated in the promoted type of T,
\* where a shift by the width of the type or more is undefined, and so is
\* INT_MIN - 1 of a signed type
computeMaskFromLengthIsConstant(t, length, offset) ==
    LET p == PromotedType(t)
        one == Promote(Convert(Lit(1), "int32_t", t), t)
    IN  /\ length < BitCount(p)
        /\ ~(IsSigned(p) /\ ShiftLeft(one, length, p) = {TopBit(p)})
        /\ offset < BitCount(p)

\* template<typename T> constexpr T computeMaskFromLength(T length, T offset)
computeMaskFromLength(t, length, offset) ==
    LET p == PromotedType(t)
        one == Promote(Convert(Lit(1), "int32_t", t), t)
    IN  Convert(ShiftLeft(MinusOne(ShiftLeft(one, length, p), p), offset, p), p, t)

\* FieldVector<T, R, lsbPos, length> = Pattern<T, R, computeMaskFromLength(length, lsbPos), lsbPos>
FieldVector(t, r, lsbPos, length) == Pattern(r, computeMaskFromLength(t, length, lsbPos), lsbPos)

\* FieldRange<T, R, start, end> = FieldVector<T, R, start, (end - start) + 1>
FieldRange(t, r, start, end) == FieldVector(t, r, start, (end - start) + 1)

(***************************************************************************)
(* Description<T, Patterns...>                                             *)
(***************************************************************************)
\* Description::NumberOfPatterns
NumberOfPatterns(d) == Len(d)

\* the fold expression (e1 | ... | en) over DataType operands, returned as DataType
RECURSIVE FoldOr(_, _, _)
FoldOr(t, terms, i) ==
    IF i = Len(terms) THEN Promote(terms[i], t)
    ELSE BitOr(Promote(terms[i], t), FoldOr(t, terms, i + 1))

\* a Description used as one of the Patterns... of another Description: only
\* its DataType, SliceType, decode and encode are asked of a member
NestedDescription(d) == [Patterns |-> d]
IsDescription(m) == "Patterns" \in DOMAIN m

\* the tuples whose i-th element is drawn from sets[i], for i in 1 .. n
RECURSIVE TuplesOf(_, _)
TuplesOf(sets, n) ==
    IF n = 0 THEN {<<>>}
    ELSE {Append(tup, x) : tup \in TuplesOf(sets, n - 1), x \in sets[n]}

\* the object of a member's SliceType with every scalar zero
RECURSIVE ZeroObject(_)
ZeroObject(m) ==
    IF IsDescription(m)
    THEN [i \in 1 .. Len(m.Patterns) |-> ZeroObject(m.Patterns[i])]
    ELSE {}

\* Description::decode building its tuple from the last Pattern to the first
DescriptionDecodeMutReversed(t, d, v) ==
    LET member(i) == IF IsDescription(d[i]) THEN ZeroObject(d[i]) ELSE PatternDecode(t, d[i], v)
        tup == [i \in 1 .. Len(d) |-> member(Len(d) + 1 - i)]
    IN  IF Len(d) = 1 THEN {tup[1]} ELSE {tup}

\* Description::decode(DataType input) with decltype(auto): with two or more
\* Patterns (or none) it returns the local tuple tup of every member's decode
\* by value.  With exactly one Pattern it returns std::get<0>(tup), an lvalue,
\* so the return type is a reference into tup, which is destroyed on return:
\* reading the result is undefined.  The outcomes are what builds of the
\* program read there: the element tup held (g++ -O0) or a zero object
\* (g++ -O1, -O2, -Os).  The result is the set of outcomes.  make_tuple takes
\* each member's decode as that member's SliceType: what a member Description
\* of one Pattern returned, an element, is converted to its one-element tuple.
RECURSIVE DescriptionDecode(_, _, _)
DescriptionDecode(t, d, v) ==
    LET member(i) ==
            IF ~IsDescription(d[i]) THEN {PatternDecode(t, d[i], v)}
            ELSE IF Len(d[i].Patterns) = 1
                 THEN {<<x>> : x \in DescriptionDecode(t, d[i].Patterns, v)}
                 ELSE DescriptionDecode(t, d[i].Patterns, v)
        tups == TuplesOf([i \in 1 .. Len(d) |-> member(i)], Len(d))
    IN  IF NumberOfPatterns(d) = 1
        THEN {tup[1] : tup \in tups} \cup {ZeroObject(d[1])}
        ELSE tups

\* the fold expression written with & in place of |
RECURSIVE FoldAnd(_, _, _)
FoldAnd(t, terms, i) ==
    IF i = Len(terms) THEN Promote(terms[i], t)
    ELSE BitAnd(Promote(terms[i], t), FoldAnd(t, terms, i + 1))

RECURSIVE DescriptionEncode(_, _, _)
RECURSIVE DescriptionEncodeTuple(_, _, _)

\* Description::encode(values...) combining the Patterns' encodes with &
DescriptionEncodeMutAnd(t, d, vals) ==
    Convert(FoldAnd(t, [i \in 1 .. Len(d) |-> encode(t, d[i].SliceType, d[i].Mask, d[i].Shift,
                                                      {}, vals[i])], 1),
            PromotedType(t), t)

\* Description::encode(typename Patterns::SliceType&& ... values): every
\* member's encode of its own value, Pattern::encode(SliceType) for a Pattern
\* and Description::encode(SliceType&&) of a tuple for a member Description
DescriptionEncode(t, d, vals) ==
    Convert(FoldOr(t, [i \in 1 .. Len(d) |->
                          IF IsDescription(d[i])
                          THEN DescriptionEncodeTuple(t, d[i].Patterns, vals[i])
                          ELSE PatternEncodeZero(t, d[i], vals[i])], 1),
            PromotedType(t), t)

\* encode0 unpacking the tuple from its last element to its first
DescriptionEncodeTupleMutReversed(t, d, tup) ==
    DescriptionEncode(t, d, [i \in 1 .. NumberOfPatterns(d) |-> tup[NumberOfPatterns(d) + 1 - i]])

\* Description::encode(SliceType&& tuple): encode0 unpacks the tuple by index
\* into Description::encode(values...)
DescriptionEncodeTuple(t, d, tup) ==
    DescriptionEncode(t, d, [i \in 1 .. NumberOfPatterns(d) |-> tup[i]])

\* the value category of an argument expression
ValueCategories == {"lvalue", "xvalue", "prvalue"}

\* overload resolution of D::encode(args...) for NumberOfPatterns arguments
\* of the Patterns' SliceTypes, two or more: encode(DataType, SliceType&&...)
\* takes one argument more and encode(SliceType&& tuple) takes one, so only
\* encode(typename Patterns::SliceType&& ... values) has as many parameters,
\* and an rvalue reference parameter does not bind to an lvalue of its type
EncodeIsViable(d, categories) ==
    /\ Len(categories) = NumberOfPatterns(d)
    /\ \A i \in 1 .. Len(categories) : categories[i] # "lvalue"

\* template<typename T, typename ... Patterns> unpack(T input), decltype(auto):
\* returns what Description<T, Patterns...>::decode(input) returns
unpack(t, patterns, input) == DescriptionDecode(t, patterns, input)

\* template<typename T, typename ... Patterns> pack(SliceType&& ... inputs)
pack(t, patterns, ins) == DescriptionEncode(t, patterns, ins)

\* Description::encode(DataType value, typename Patterns::SliceType&& ... inputs)
DescriptionEncodeOnto(t, d, v, ins) ==
    IF NumberOfPatterns(d) = 0 THEN v
    ELSE Convert(FoldOr(t, [i \in 1 .. Len(d) |-> PatternEncode(t, d[i], v, ins[i])], 1),
                 PromotedType(t), t)

(***************************************************************************)
(* Half and quarter layouts                                                *)
(***************************************************************************)
\* DefFact_HalfOf(x, r): HalfOf<x>::HalfType
HalfType_t(t) ==
    CASE t = "uint16_t" -> "uint8_t"
      [] t = "uint8_t" -> "uint8_t"
      [] t = "uint32_t" -> "uint16_t"
      [] t = "uint64_t" -> "uint32_t"
      [] t = "int16_t" -> "int8_t"
      [] t = "int8_t" -> "int8_t"
      [] t = "int32_t" -> "int16_t"
      [] t = "int64_t" -> "int32_t"

QuarterType_t(t) == HalfType_t(HalfType_t(t))
HalfShiftAmount(t) == BitCount(t) \div 2
QuarterShiftAmount(t) == BitCount(t) \div 4

\* std::numeric_limits<t>::max()
NumericLimitsMax(t) == IF IsSigned(t) THEN 0 .. (TopBit(t) - 1) ELSE BitsOf(t)

\* mask << amount, as written in the variable templates: evaluated in the
\* promoted type of T and converted back to T by the initialisation
ShiftMask(t, mask, amount) ==
    Convert(ShiftLeft(Promote(mask, t), amount, PromotedType(t)), PromotedType(t), t)

LowerHalfMask(t) ==
    IF t \in {"uint8_t", "int8_t"} THEN Convert(Lit(15), "int32_t", t)
    ELSE Convert(NumericLimitsMax(HalfType_t(t)), HalfType_t(t), t)
UpperHalfMask(t) == ShiftMask(t, LowerHalfMask(t), HalfShiftAmount(t))

LowestQuarterMask(t) ==
    IF t \in {"uint8_t", "int8_t"} THEN Convert(Lit(3), "int32_t", t)
    ELSE Convert(NumericLimitsMax(QuarterType_t(t)), QuarterType_t(t), t)
LowerQuarterMask(t) == ShiftMask(t, LowestQuarterMask(t), QuarterShiftAmount(t))
HigherQuarterMask(t) == ShiftMask(t, LowerQuarterMask(t), QuarterShiftAmount(t))
HighestQuarterMask(t) == ShiftMask(t, HigherQuarterMask(t), QuarterShiftAmount(t))

UpperHalfPattern(t) == Pattern(HalfType_t(t), UpperHalfMask(t), HalfShiftAmount(t))
LowerHalfPattern(t) == Pattern(HalfType_t(t), LowerHalfMask(t), 0)

HighestQuarterPattern(t) ==
    Pattern(QuarterType_t(t), HighestQuarterMask(t), QuarterShiftAmount(t) * 3)
HigherQuarterPattern(t) ==
    Pattern(QuarterType_t(t), HigherQuarterMask(t), QuarterShiftAmount(t) * 2)
LowerQuarterPattern(t) ==
    Pattern(QuarterType_t(t), LowerQuarterMask(t), QuarterShiftAmount(t))
LowestQuarterPattern(t) == Pattern(QuarterType_t(t), LowestQuarterMask(t), 0)

LittleEndianHalves(t) == <<LowerHalfPattern(t), UpperHalfPattern(t)>>
LittleEndianQuarters(t) ==
    <<LowestQuarterPattern(t), LowerQuarterPattern(t),
      HigherQuarterPattern(t), HighestQuarterPattern(t)>>

\* using TestDescription = Description<T, LittleEndianQuarters<T>, LittleEndianHalves<T>>
TestDescription(t) ==
    <<NestedDescription(LittleEndianQuarters(t)), NestedDescription(LittleEndianHalves(t))>>

\* getHalves<T>(input): unpack<T, LittleEndianHalves<T>>(input), a Description
\* whose one member is the Description LittleEndianHalves<T>
getHalves(t, input) == unpack(t, <<NestedDescription(LittleEndianHalves(t))>>, input)

\* getQuarters<T>(input): unpack<T, LittleEndianQuarters<T>>(input)
getQuarters(t, input) == unpack(t, <<NestedDescription(LittleEndianQuarters(t))>>, input)

\* fromHalves<T>(a, b): LittleEndianHalves<T>::encode(a, b); the parameters a
\* and b are named, so the arguments are lvalues
fromHalvesArguments == <<"lvalue", "lvalue">>

\* fromQuarters<T>(a, b, c, d): LittleEndianQuarters<T>::encode(std::move(a),
\* std::move(b), std::move(c), std::move(d))
fromQuartersArguments == <<"xvalue", "xvalue", "xvalue", "xvalue">>

(***************************************************************************)
(* Bounds of the model and the arguments drawn                             *)
(***************************************************************************)
\* the lowest bit positions 0 .. MaxPos are tried as field positions and shifts
MaxPos == 1
\* the field lengths 1 .. MaxLength are tried
MaxLength == 1
\* a Description is instantiated with 1 .. MaxFields Patterns
MaxFields == 2

\* bit positions tried in a type: the lowest ones and the quarter, half and sign bit
Positions(t) ==
    {i \in 0 .. MaxPos : i < BitCount(t)}
      \cup {QuarterShiftAmount(t), HalfShiftAmount(t), TopBit(t)}
\* field lengths tried in a type
Lengths(t) ==
    {n \in 1 .. MaxLength : n <= BitCount(t)}
      \cup {QuarterShiftAmount(t), HalfShiftAmount(t), BitCount(t)}

\* the bits lsb .. lsb + len - 1
Run(lsb, len) == lsb .. (lsb + len - 1)

\* masks tried for a Pattern: the contiguous runs inside the type, and two
\* masks that are not contiguous
Masks(t) ==
    UNION {{Run(lsb, len) : len \in {n \in Lengths(t) : lsb + n <= BitCount(t)}} :
           lsb \in Positions(t)}
      \cup {{0, TopBit(t)}, Run(0, QuarterShiftAmount(t)) \cup Run(HalfShiftAmount(t), QuarterShiftAmount(t))}
\* shifts tried for a Pattern
Shifts(t) == Positions(t)
\* logical types tried for a Pattern over t
SliceTypes(t) == {t, HalfType_t(t), "bool"}

\* lsbPos and length arguments tried for a FieldVector: those tried for any
\* Pattern and the 12-bit field at offset 4 of the header's static_asserts
LsbPositions(t) == Positions(t) \cup {4}
FieldLengths(t) == Lengths(t) \cup {n \in {12} : n <= BitCount(t)}

\* the word 0xFDEDABCD of the test programs, repeated to the width of t
TestWord(t) == {i \in BitsOf(t) : (i % 32) \in (Lit(43981) \cup {j + 16 : j \in Lit(65005)})}

\* DataType arguments tried: 0, 0x100, 0x17F, 0x2FF, 0xABCD (the literals
\* around bit 8 and of the header's static_asserts) cut to the type, the test
\* programs' word, -1 (all ones) and the sign bit alone
Values(t) ==
    {Convert(Lit(n), "int32_t", t) : n \in {0, 256, 383, 767, 43981}}
      \cup {TestWord(t), BitsOf(t), {TopBit(t)}}

\* DataType arguments tried as the base of an encode: those of Values that are
\* not the Flag literals of the static_asserts
Bases(t) ==
    {Convert(Lit(n), "int32_t", t) : n \in {0, 43981}}
      \cup {TestWord(t), BitsOf(t), {TopBit(t)}}

\* SliceType arguments tried
Inputs(r) ==
    IF IsBoolType(r) THEN {False, True}
    ELSE {Convert(Lit(n), "int32_t", r) : n \in {0, 1, 13, 2748}}
           \cup {BitsOf(r), {TopBit(r)}}

\* Patterns tried as members of a Description over t
DescFields(t) ==
    LET h == HalfShiftAmount(t)
        low == Run(0, h)
        high == Run(h, h)
    IN  {Pattern(HalfType_t(t), low, 0), Pattern(HalfType_t(t), high, h),
         NoCastPattern(t, BitsOf(t), 0), NoCastPattern(t, low, h),
         BoolPattern(t, high, h), Flag(t, TopBit(t))}

\* arguments tried for the Patterns of a Description and for a call made on
\* the result of another
DescValues(t) == {TestWord(t), BitsOf(t)}
DescInputs(r) ==
    IF IsBoolType(r) THEN {False, True}
    ELSE {Convert(Lit(2748), "int32_t", r), BitsOf(r)}

\* the sequences of length n over S
SeqsOfLen(S, n) == [1 .. n -> S]

(***************************************************************************)
(* The state machine                                                       *)
(***************************************************************************)
PatternKinds == {"Pattern", "Flag", "FieldVector", "FieldRange"}
DescriptionKinds == {"Description", "LittleEndianHalves", "LittleEndianQuarters"}

Init ==
    /\ T \in BackingTypes
    /\ kind = "none"
    /\ desc = <<>>
    /\ params = <<>>
    /\ pc = "define"
    /\ value = {}
    /\ inputs = <<>>
    /\ result = {}
    /\ illFormed = FALSE

InstantiateWith(k, d, ps) ==
    /\ pc = "define"
    /\ pc' = "ready"
    /\ kind' = k
    /\ desc' = d
    /\ params' = ps
    /\ UNCHANGED <<T, value, inputs, result, illFormed>>

Instantiate(k, d) == InstantiateWith(k, d, <<>>)

\* an instantiation whose template argument is not a constant expression:
\* the program is rejected and nothing can be called
InstantiateIllFormed(k, ps) ==
    /\ pc = "define"
    /\ pc' = "rejected"
    /\ kind' = k
    /\ desc' = <<>>
    /\ params' = ps
    /\ illFormed' = TRUE
    /\ UNCHANGED <<T, value, inputs, result>>

\* using P = Pattern<T, R, mask, shift>
DefinePattern ==
    \E r \in SliceTypes(T), mask \in Masks(T), shift \in Shifts(T) :
        Instantiate("Pattern", <<Pattern(r, mask, shift)>>)

\* using F = Flag<T, position>
DefineFlag ==
    \E position \in Positions(T) : Instantiate("Flag", <<Flag(T, position)>>)

\* using F = FieldVector<T, T, lsbPos, length>
DefineFieldVector ==
    \E lsbPos \in LsbPositions(T) :
        \E length \in {n \in FieldLengths(T) : lsbPos + n <= BitCount(T)} :
            IF computeMaskFromLengthIsConstant(T, length, lsbPos)
            THEN InstantiateWith("FieldVector", <<FieldVector(T, T, lsbPos, length)>>,
                                 <<lsbPos, length>>)
            ELSE InstantiateIllFormed("FieldVector", <<lsbPos, length>>)

\* using F = FieldRange<T, T, start, end>
DefineFieldRange ==
    \E start \in LsbPositions(T) :
        \E end \in {start + n - 1 : n \in {m \in FieldLengths(T) : start + m <= BitCount(T)}} :
            IF computeMaskFromLengthIsConstant(T, (end - start) + 1, start)
            THEN InstantiateWith("FieldRange", <<FieldRange(T, T, start, end)>>,
                                 <<start, end>>)
            ELSE InstantiateIllFormed("FieldRange", <<start, end>>)

\* using D = Description<T, Patterns...>
DefineDescription ==
    \E n \in 1 .. MaxFields : \E d \in SeqsOfLen(DescFields(T), n) :
        Instantiate("Description", d)

\* LittleEndianHalves<T>
DefineLittleEndianHalves ==
    /\ T \in BackingTypes
    /\ Instantiate("LittleEndianHalves", LittleEndianHalves(T))

\* LittleEndianQuarters<T>
DefineLittleEndianQuarters ==
    /\ T \in BackingTypes
    /\ Instantiate("LittleEndianQuarters", LittleEndianQuarters(T))

Call(name, v, ins, res) ==
    /\ pc' = name
    /\ value' = v
    /\ inputs' = ins
    /\ result' = res
    /\ illFormed' = FALSE
    /\ UNCHANGED <<T, kind, desc, params>>

\* a call that overload resolution rejects: nothing is returned
CallIllFormed(name, v, ins) ==
    /\ pc' = name
    /\ value' = v
    /\ inputs' = ins
    /\ result' = {}
    /\ illFormed' = TRUE
    /\ UNCHANGED <<T, kind, desc, params>>

\* P::decode(v)
CallPatternDecode ==
    /\ pc = "ready" /\ kind \in PatternKinds
    /\ \E v \in Values(T) : Call("Pattern::decode", v, <<>>, PatternDecode(T, desc[1], v))

\* P::encode(v, input)
CallPatternEncode ==
    /\ pc = "ready" /\ kind \in PatternKinds
    /\ \E v \in Bases(T), input \in Inputs(desc[1].SliceType) :
          Call("Pattern::encode", v, <<input>>, PatternEncode(T, desc[1], v, input))

\* P::encode(input)
CallPatternEncodeZero ==
    /\ pc = "ready" /\ kind \in PatternKinds
    /\ \E input \in Inputs(desc[1].SliceType) :
          Call("Pattern::encode0", {}, <<input>>, PatternEncodeZero(T, desc[1], input))

\* P::encode(P::encode(v, input), input): the same input is encoded again
\* onto what the first call returned
CallPatternEncodeAgain ==
    /\ pc = "ready" /\ kind \in PatternKinds
    /\ \E v \in DescValues(T), input \in DescInputs(desc[1].SliceType) :
          LET first == PatternEncode(T, desc[1], v, input)
          IN  Call("Pattern::encode(encode)", first, <<input>>,
                   PatternEncode(T, desc[1], first, input))

\* P::decode(P::encode(v, input)): the field is read back from what encode returned
CallPatternDecodeEncoded ==
    /\ pc = "ready" /\ kind \in PatternKinds
    /\ \E v \in DescValues(T), input \in DescInputs(desc[1].SliceType) :
          Call("Pattern::decode(encode)", v, <<input>>,
               PatternDecode(T, desc[1], PatternEncode(T, desc[1], v, input)))

\* the argument tuples tried for a Description
DescArgs(d) == {ins \in [1 .. Len(d) -> UNION {DescInputs(d[i].SliceType) : i \in 1 .. Len(d)}] :
                  \A i \in 1 .. Len(d) : ins[i] \in DescInputs(d[i].SliceType)}

\* D::decode(v)
CallDescriptionDecode ==
    /\ pc = "ready" /\ kind \in DescriptionKinds
    /\ \E v \in DescValues(T) : \E res \in DescriptionDecode(T, desc, v) :
          Call("Description::decode", v, <<>>, res)

\* D::encode(D::decode(v)): what decode returned is handed back to encode
\* (the tuple overload unpacks it; a single Pattern's bare value is passed as is)
CallEncodeDecoded ==
    /\ pc = "Description::decode"
    /\ IF NumberOfPatterns(desc) = 1
       THEN Call("Description::encode(decode)", value, <<result>>,
                 DescriptionEncode(T, desc, <<result>>))
       ELSE Call("Description::encode(decode)", value, result,
                 DescriptionEncodeTuple(T, desc, result))

\* F2::decode(F1::encode(v, input)) for the first two Patterns F1, F2 of a
\* Description: another field is read from what encode returned
CallOtherDecodeEncoded ==
    /\ pc = "ready" /\ kind \in DescriptionKinds /\ NumberOfPatterns(desc) >= 2
    /\ \E v \in DescValues(T), input \in DescInputs(desc[1].SliceType) :
          Call("Pattern::decode(other encode)", v, <<input>>,
               PatternDecode(T, desc[2], PatternEncode(T, desc[1], v, input)))

\* D::encode(values...)
CallDescriptionEncode ==
    /\ pc = "ready" /\ kind \in DescriptionKinds
    /\ \E ins \in DescArgs(desc) :
          Call("Description::encode", {}, ins, DescriptionEncode(T, desc, ins))

\* D::encode(std::make_tuple(values...))
CallDescriptionEncodeTuple ==
    /\ pc = "ready" /\ kind \in DescriptionKinds
    /\ \E tup \in DescArgs(desc) :
          Call("Description::encode(tuple)", {}, tup, DescriptionEncodeTuple(T, desc, tup))

\* D::encode(v, inputs...)
CallDescriptionEncodeOnto ==
    /\ pc = "ready" /\ kind \in DescriptionKinds
    /\ \E v \in DescValues(T), ins \in DescArgs(desc) :
          Call("Description::encode(base)", v, ins, DescriptionEncodeOnto(T, desc, v, ins))

\* using TestDescription = Description<T, LittleEndianQuarters<T>, LittleEndianHalves<T>>
DefineTestDescription ==
    /\ T \in BackingTypes
    /\ Instantiate("TestDescription", TestDescription(T))

\* unpack<T, TestDescription>(v): the Description whose one member is TestDescription
CallUnpack ==
    /\ pc = "ready" /\ kind = "TestDescription"
    /\ \E v \in DescValues(T) : \E res \in unpack(T, <<NestedDescription(desc)>>, v) :
          Call("unpack", v, <<>>, res)

\* pack<T, TestDescription>(std::make_tuple(quarters, halves))
CallPack ==
    /\ pc = "ready" /\ kind = "TestDescription"
    /\ \E quarters \in DescArgs(LittleEndianQuarters(T)), halves \in DescArgs(LittleEndianHalves(T)) :
          Call("pack", {}, <<quarters, halves>>,
               pack(T, <<NestedDescription(desc)>>, <<(<<quarters, halves>>)>>))

\* auto result = unpack<T, TestDescription>(v); pack<T, TestDescription>(std::move(result))
CallPackOfUnpacked ==
    /\ pc = "unpack"
    /\ Call("pack(unpack)", value, result, pack(T, <<NestedDescription(desc)>>, <<result>>))

\* getHalves<T>(v)
CallGetHalves ==
    /\ pc = "ready" /\ kind = "LittleEndianHalves"
    /\ \E v \in DescValues(T) : \E res \in getHalves(T, v) :
          Call("getHalves", v, <<>>, res)

\* fromHalves<T>(a, b) for the arguments ins
fromHalvesCall(name, v, ins) ==
    IF EncodeIsViable(LittleEndianHalves(T), fromHalvesArguments)
    THEN Call(name, v, ins, DescriptionEncode(T, LittleEndianHalves(T), ins))
    ELSE CallIllFormed(name, v, ins)

\* fromHalves<T>(a, b)
CallFromHalves ==
    /\ pc = "ready" /\ kind = "LittleEndianHalves"
    /\ \E ins \in DescArgs(desc) : fromHalvesCall("fromHalves", {}, ins)

\* auto [a, b] = getHalves<T>(v); fromHalves<T>(std::move(a), std::move(b))
CallFromHalvesOfGot ==
    /\ pc = "getHalves"
    /\ fromHalvesCall("fromHalves(getHalves)", value, result)

\* getQuarters<T>(v)
CallGetQuarters ==
    /\ pc = "ready" /\ kind = "LittleEndianQuarters"
    /\ \E v \in DescValues(T) : \E res \in getQuarters(T, v) :
          Call("getQuarters", v, <<>>, res)

\* fromQuarters<T>(a, b, c, d) for the arguments ins
fromQuartersCall(name, v, ins) ==
    IF EncodeIsViable(LittleEndianQuarters(T), fromQuartersArguments)
    THEN Call(name, v, ins, DescriptionEncode(T, LittleEndianQuarters(T), ins))
    ELSE CallIllFormed(name, v, ins)

\* fromQuarters<T>(a, b, c, d)
CallFromQuarters ==
    /\ pc = "ready" /\ kind = "LittleEndianQuarters"
    /\ \E ins \in DescArgs(desc) : fromQuartersCall("fromQuarters", {}, ins)

\* auto [l0, l1, h0, h1] = getQuarters<T>(v);
\* fromQuarters<T>(std::move(l0), std::move(l1), std::move(h0), std::move(h1))
CallFromQuartersOfGot ==
    /\ pc = "getQuarters"
    /\ fromQuartersCall("fromQuarters(getQuarters)", value, result)

Next ==
    \/ DefinePattern
    \/ DefineFlag
    \/ DefineFieldVector
    \/ DefineFieldRange
    \/ DefineDescription
    \/ DefineLittleEndianHalves
    \/ DefineLittleEndianQuarters
    \/ CallPatternDecode
    \/ CallPatternEncode
    \/ CallPatternEncodeZero
    \/ CallPatternEncodeAgain
    \/ CallPatternDecodeEncoded
    \/ CallOtherDecodeEncoded
    \/ CallDescriptionDecode
    \/ CallEncodeDecoded
    \/ CallDescriptionEncode
    \/ CallDescriptionEncodeTuple
    \/ CallDescriptionEncodeOnto
    \/ DefineTestDescription
    \/ CallUnpack
    \/ CallPack
    \/ CallPackOfUnpacked
    \/ CallGetHalves
    \/ CallFromHalves
    \/ CallFromHalvesOfGot
    \/ CallGetQuarters
    \/ CallFromQuarters
    \/ CallFromQuartersOfGot

Spec == Init /\ [][Next]_vars

(***************************************************************************)
(* Properties                                                              *)
(***************************************************************************)
\* the masks of a Description's Patterns are pairwise disjoint
PairwiseDisjoint(d) ==
    \A i, j \in 1 .. Len(d) : i # j => d[i].Mask \cap d[j].Mask = {}
\* every bit of the backing type lies under the mask of some Pattern
CoversAll(t, d) == UNION {d[i].Mask : i \in 1 .. Len(d)} = BitsOf(t)

\* F_n.encode(... F_2.encode(F_1.encode(base, v_1), v_2) ..., v_n)
RECURSIVE FoldEncode(_, _, _, _, _)
FoldEncode(t, d, base, ins, n) ==
    IF n = 0 THEN base
    ELSE PatternEncode(t, d[n], FoldEncode(t, d, base, ins, n - 1), ins[n])

\* C1: Description::encode(base, v1..vn) with two or more fields equals the
\* fold of the field encodes onto base, F_n.encode(...F_1.encode(base, v_1)..., v_n)
\* (so the old bits of base under every Mask are cleared and the bits of base
\* under no Mask are kept).
C1_EncodeOntoIsFold ==
    (pc = "Description::encode(base)" /\ NumberOfPatterns(desc) >= 2)
        => result = FoldEncode(T, desc, value, inputs, Len(desc))

\* C2: the four quarter Patterns of every backing type have the shifts 0, W/4,
\* W/2 and 3W/4, pairwise disjoint masks, and masks whose union is all W bits.
C2_QuartersPartition ==
    kind = "LittleEndianQuarters"
        => /\ [i \in 1 .. 4 |-> desc[i].Shift]
                = <<0, BitCount(T) \div 4, BitCount(T) \div 2, (3 * BitCount(T)) \div 4>>
           /\ PairwiseDisjoint(desc)
           /\ CoversAll(T, desc)

\* C3: the low-half Pattern of every backing type has the low W/2 bits as Mask
\* and Shift 0, the high-half Pattern has that mask moved up by W/2 and Shift
\* W/2, the two masks are disjoint and their union is all W bits.
C3_HalvesPartition ==
    kind = "LittleEndianHalves"
        => /\ desc[1].Mask = Run(0, BitCount(T) \div 2)
           /\ desc[1].Shift = 0
           /\ desc[2].Mask = {i + BitCount(T) \div 2 : i \in desc[1].Mask}
           /\ desc[2].Shift = BitCount(T) \div 2
           /\ PairwiseDisjoint(desc)
           /\ CoversAll(T, desc)

\* Flag<uint32_t, 8>::decode has been called
Flag8Decoded ==
    /\ pc = "Pattern::decode" /\ kind = "Flag" /\ T = "uint32_t"
    /\ desc[1].Shift = 8

\* C4 as claimed: Flag<uint32_t, 8> decodes 0b1_0000_0000 (256) to true and
\* 0b1_0111_1111 (383) to false.
C4_Original ==
    Flag8Decoded => /\ value = Lit(256) => result = True
                    /\ value = Lit(383) => result = False

\* C4 as amended: Flag<uint32_t, 8> decodes 0b1_0000_0000 (256) to true and
\* 0b10_1111_1111 (767, the literal 0b1'0'1'1111'111 of the header: bit 8
\* clear, bits 0..7 and 9 set) to false.
C4_Flag8Decode ==
    Flag8Decoded => /\ value = Lit(256) => result = True
                    /\ value = Lit(767) => result = False

\* C4 witness: Flag<uint32_t, 8>::decode was called on 0b10_1111_1111 and
\* answered false.
C4_Witness ==
    /\ Flag8Decoded
    /\ desc[1] = [SliceType |-> "bool", Mask |-> {8}, Shift |-> 8]
    /\ value = (0 .. 7) \cup {9}
    /\ result = False

\* bit j of the integer a value b of type t stands for, in two's complement
\* of unbounded width (the sign bit of a signed type repeats above the type)
IntBit(t, b, j) ==
    IF j <= TopBit(t) THEN j \in b ELSE IsSigned(t) /\ TopBit(t) \in b

\* a numeric Pattern's encode(base, input) has been called
NumericEncoded ==
    pc = "Pattern::encode" /\ ~IsBoolType(desc[1].SliceType)

\* C5: for a non-boolean Field, encode(base, input) is
\* (base AND NOT Mask) OR ((input << Shift) AND Mask) modulo 2^W: bit by bit,
\* a bit under the Mask is the bit of input Shift places lower, any other bit
\* is the bit of base.
C5_EncodeFormula ==
    NumericEncoded
        => \A i \in BitsOf(T) :
              i \in result <=>
                  IF i \in desc[1].Mask
                  THEN i >= desc[1].Shift
                         /\ IntBit(desc[1].SliceType, inputs[1], i - desc[1].Shift)
                  ELSE i \in value

\* C5 witness: a numeric encode that cleared bits of base under the Mask,
\* wrote input bits there, and whose shifted input reached beyond the Mask.
C5_Witness ==
    /\ NumericEncoded
    /\ (value \cap desc[1].Mask) \ result # {}
    /\ (result \cap desc[1].Mask) \ value # {}
    /\ {i + desc[1].Shift : i \in inputs[1]} \ desc[1].Mask # {}
    /\ value \ desc[1].Mask # {}

\* a numeric Pattern's decode(v) has been called
NumericDecoded ==
    pc = "Pattern::decode" /\ ~IsBoolType(desc[1].SliceType)

C7_EncodeFrame ==
    pc = "Pattern::encode" => result \ desc[1].Mask = value \ desc[1].Mask

\* C7 witness: an encode that changed base, whose base has bits outside the
\* Mask and whose shifted input has bits outside the Mask too.
C7_Witness ==
    /\ pc = "Pattern::encode"
    /\ result # value
    /\ value \ desc[1].Mask # {}
    /\ BitsOf(T) \ (desc[1].Mask \cup value) # {}
    /\ ~IsBoolType(desc[1].SliceType)
    /\ {i + desc[1].Shift : i \in inputs[1]} \ (desc[1].Mask \cup value) # {}

\* the Pattern's Mask is n >= 1 contiguous bits starting at its Shift
MaskStartsAtShift(pat) ==
    pat.Mask # {} /\ pat.Mask = Run(pat.Shift, Cardinality(pat.Mask))

\* x mod 2^n for an argument x of logical type r, handed to encode as an r:
\* the low n bits of the integer x, converted to r as any argument is
ModPow2(t, r, x, n) == Convert(Convert(x, r, t) \cap Run(0, n), t, r)

\* C9: for a numeric Field whose Mask is n contiguous bits starting at Shift,
\* encode(base, x) = encode(base, x mod 2^n) for every x, also x >= 2^n, and
\* no bit outside the Mask differs from base.
C9_EncodeTruncates ==
    (NumericEncoded /\ MaskStartsAtShift(desc[1]))
        => /\ result = PatternEncode(T, desc[1], value,
                                      ModPow2(T, desc[1].SliceType, inputs[1],
                                              Cardinality(desc[1].Mask)))
           /\ result \ desc[1].Mask = value \ desc[1].Mask

\* C9 witness: an input with bits at or above 2^n was encoded into an n-bit
\* field that does not reach the top of the backing type, onto a base that
\* has zero bits above the field.
C9_Witness ==
    /\ NumericEncoded /\ MaskStartsAtShift(desc[1])
    /\ inputs[1] \ Run(0, Cardinality(desc[1].Mask)) # {}
    /\ inputs[1] \cap Run(0, Cardinality(desc[1].Mask)) # {}
    /\ \E i \in inputs[1] :
          /\ i >= Cardinality(desc[1].Mask)
          /\ i + desc[1].Shift \in BitsOf(T) \ value

\* a boolean Pattern's decode(v) has been called
BoolDecoded ==
    pc = "Pattern::decode" /\ IsBoolType(desc[1].SliceType)

\* C10: for a Field whose LogicalType is boolean, whatever its Mask and Shift,
\* decode(v) is true exactly when (v AND Mask) != 0.
C10_BoolDecode ==
    BoolDecoded => (result = True <=> value \cap desc[1].Mask # {})

\* C10 witness: a boolean Pattern with a Mask of several bits, all of them
\* below its Shift, answered true for a value that has only some of the
\* masked bits and also bits outside the Mask.
C10_Witness ==
    /\ BoolDecoded
    /\ Cardinality(desc[1].Mask) > 1
    /\ \A m \in desc[1].Mask : m < desc[1].Shift
    /\ value \cap desc[1].Mask # {}
    /\ desc[1].Mask \ value # {}
    /\ value \ desc[1].Mask # {}
    /\ result = True

\* D::encode(D::decode(v)) has been computed, for a Description whose masks
\* are pairwise disjoint and cover every bit of the backing type
RoundTripOfExactCover ==
    /\ pc = "Description::encode(decode)"
    /\ PairwiseDisjoint(desc)
    /\ CoversAll(T, desc)

BoolEncoded ==
    pc = "Pattern::encode" /\ IsBoolType(desc[1].SliceType)

\* C11: for a Field whose LogicalType is boolean, encode(base, true) is
\* base OR Mask (every masked bit set) and encode(base, false) is
\* base AND NOT Mask (every masked bit cleared), whatever the Shift.
C11_BoolEncode ==
    BoolEncoded
        => /\ inputs[1] = True => result = value \cup desc[1].Mask
           /\ inputs[1] = False => result = value \ desc[1].Mask

\* C11 witness: true was encoded into a boolean Pattern whose Mask has
\* several bits, none of them at its Shift, onto a base that had only some
\* of the masked bits.
C11_Witness ==
    /\ BoolEncoded
    /\ inputs[1] = True
    /\ Cardinality(desc[1].Mask) > 1
    /\ desc[1].Shift \notin desc[1].Mask
    /\ value \cap desc[1].Mask # {}
    /\ desc[1].Mask \ value # {}
    /\ result = value \cup desc[1].Mask

\* the bits a Field's encode(0, input) sets: a numeric Field puts bit k of the
\* input at k + Shift and keeps what falls under its Mask, a boolean Field
\* sets its whole Mask for true
FieldBits(pat, input) ==
    IF IsBoolType(pat.SliceType) THEN (IF input = True THEN pat.Mask ELSE {})
    ELSE {i \in pat.Mask : i >= pat.Shift /\ IntBit(pat.SliceType, input, i - pat.Shift)}

\* C12: for a Description with at least one field, encode(v1..vn) without a
\* base is the bitwise OR over the fields of F_i.encode(0, v_i), and the tuple
\* overload encode((v1..vn)) returns what the positional call returns.
C12_EncodeIsOrOfFields ==
    (pc \in {"Description::encode", "Description::encode(tuple)"} /\ NumberOfPatterns(desc) >= 1)
        => result = UNION {FieldBits(desc[i], inputs[i]) : i \in 1 .. Len(desc)}

\* C12 witness: the tuple overload was called on a Description of two fields
\* of different logical types with different values, each of which put bits
\* into the result that the other did not.
C12_Witness ==
    /\ pc = "Description::encode(tuple)"
    /\ Len(desc) = 2
    /\ desc[1].SliceType # desc[2].SliceType
    /\ inputs[1] # inputs[2]
    /\ FieldBits(desc[1], inputs[1]) \ FieldBits(desc[2], inputs[2]) # {}
    /\ FieldBits(desc[2], inputs[2]) \ FieldBits(desc[1], inputs[1]) # {}
    /\ result = FieldBits(desc[1], inputs[1]) \cup FieldBits(desc[2], inputs[2])

\* what a Field's decode(v) is, bit by bit: a boolean Field is true exactly
\* when v has a bit under the Mask, bit k of a numeric Field is bit k + Shift
\* of the integer v AND Mask
FieldValue(t, pat, v) ==
    IF IsBoolType(pat.SliceType) THEN (IF v \cap pat.Mask # {} THEN True ELSE False)
    ELSE {k \in BitsOf(pat.SliceType) : IntBit(t, v \cap pat.Mask, k + pat.Shift)}

\* a Description of two or more Fields has decoded a value
TupleDecoded ==
    /\ pc = "Description::decode" /\ kind \in DescriptionKinds
    /\ NumberOfPatterns(desc) >= 2

\* C13: for a Description with two or more fields, decode(v) is the tuple
\* whose i-th component is the i-th declared field's own decode(v), in
\* declaration order.
C13_DecodeInOrder ==
    TupleDecoded => result = [i \in 1 .. Len(desc) |-> FieldValue(T, desc[i], value)]

\* C13 witness: a Description of two different fields decoded a value to two
\* different components, neither of which is what the other field decodes.
C13_Witness ==
    /\ TupleDecoded
    /\ Len(result) = 2
    /\ desc[1] # desc[2]
    /\ result[1] # result[2]
    /\ result[1] = FieldValue(T, desc[1], value)
    /\ result[1] # FieldValue(T, desc[2], value)
    /\ result[2] # FieldValue(T, desc[1], value)

\* the bits lsb .. lsb + len - 1 of v, moved down to 0 .. len - 1
BitsAt(v, lsb, len) == {i - lsb : i \in v \cap Run(lsb, len)}

\* C14: for every 32-bit unsigned v, getHalves(v) is the pair
\* (v AND 0xFFFF, (v >> 16) AND 0xFFFF), low half first, and fromHalves
\* applied to that pair returns v.
C14_HalvesSplitJoin ==
    T = "uint32_t"
        => /\ pc = "getHalves" => result = <<BitsAt(value, 0, 16), BitsAt(value, 16, 16)>>
           /\ pc = "fromHalves(getHalves)" => ~illFormed /\ result = value

\* C15: for every 32-bit unsigned v, getQuarters(v) is the four bytes of v
\* lowest-order first (0xFDEDABCD gives (0xCD, 0xAB, 0xED, 0xFD)), and
\* fromQuarters applied to those four values in the same order returns v.
C15_QuartersSplitJoin ==
    T = "uint32_t"
        => /\ pc = "getQuarters"
                => /\ result = [i \in 1 .. 4 |-> BitsAt(value, 8 * (i - 1), 8)]
                   /\ value = TestWord(T)
                         => result = <<Lit(205), Lit(171), Lit(237), Lit(253)>>
           /\ pc = "fromQuarters(getQuarters)" => ~illFormed /\ result = value

\* the Pattern's LogicalType exactly fills its Mask width: it has as many
\* bits as the Mask (a boolean counts as one bit)
FillsMask(pat) == Cardinality(pat.Mask) = BitCount(pat.SliceType)

\* C16: for a Field whose LogicalType exactly fills its Mask width, encoding
\* x again onto encode(base, x) returns encode(base, x).
C16_EncodeIdempotent ==
    (pc = "Pattern::encode(encode)" /\ FillsMask(desc[1])) => result = value

\* C16 witness: a numeric value with some bits set and some clear was encoded
\* twice into a field that its LogicalType exactly fills and that does not
\* cover the backing type.
C16_Witness ==
    /\ pc = "Pattern::encode(encode)" /\ FillsMask(desc[1])
    /\ ~IsBoolType(desc[1].SliceType)
    /\ MaskStartsAtShift(desc[1])
    /\ desc[1].Mask # BitsOf(T)
    /\ inputs[1] # {} /\ inputs[1] # BitsOf(desc[1].SliceType)
    /\ value \cap desc[1].Mask = {i + desc[1].Shift : i \in inputs[1]}
    /\ value \ desc[1].Mask # {}
    /\ result = value

\* C17: for every backing width W and every lsbPosition and length with
\* length > 0 and lsbPosition + length <= W, length = W included,
\* FieldVector(lsbPosition, length) has Shift = lsbPosition and a Mask of
\* exactly the bits lsbPosition .. lsbPosition + length - 1; FieldRange(start,
\* end) with end >= start is the same field as FieldVector(start,
\* end - start + 1); the 12-bit field at offset 4 decodes 0xABCD to 0xABC.
C17_FieldVectorMask ==
    /\ (kind = "FieldVector" /\ params[2] > 0 /\ params[1] + params[2] <= BitCount(T))
          => /\ ~illFormed
             /\ desc[1].Shift = params[1]
             /\ desc[1].Mask = Run(params[1], params[2])
    /\ (kind = "FieldRange" /\ params[2] >= params[1] /\ params[2] < BitCount(T))
          => /\ ~illFormed
             /\ desc[1].Shift = params[1]
             /\ desc[1].Mask = Run(params[1], params[2] - params[1] + 1)
    /\ (kind \in {"FieldVector", "FieldRange"} /\ pc = "Pattern::decode"
          /\ desc[1].Shift = 4 /\ Cardinality(desc[1].Mask) = 12
          /\ value = Lit(43981))
          => result = Lit(2748)

\* C18: a Description may be a field of another Description: for the nested
\* Description over uint32 made of (little-endian quarters, little-endian
\* halves), unpack(v) is the pair (the four bytes of v lowest first, the low
\* and the high half of v), and pack of that nested result returns v.
C18_NestedUnpackPack ==
    (T = "uint32_t" /\ kind = "TestDescription")
        => /\ pc = "unpack"
                => result = <<[i \in 1 .. 4 |-> BitsAt(value, 8 * (i - 1), 8)],
                              <<BitsAt(value, 0, 16), BitsAt(value, 16, 16)>> >>
           /\ pc = "pack(unpack)" => result = value

\* the Pattern is numeric, its Mask is n >= 1 contiguous bits starting at its
\* Shift, and its LogicalType holds at least n bits
HoldsField(pat) ==
    /\ ~IsBoolType(pat.SliceType)
    /\ MaskStartsAtShift(pat)
    /\ BitCount(pat.SliceType) >= Cardinality(pat.Mask)

\* C19: for a numeric Field whose Mask is n contiguous bits starting at Shift
\* and whose LogicalType holds at least n bits, decode(encode(base, x)) is
\* x mod 2^n whatever base is, and a field with a disjoint Mask decodes from
\* encode(base, x) what it decodes from base.
C19_ReadAfterWrite ==
    /\ (pc = "Pattern::decode(encode)" /\ HoldsField(desc[1]))
          => result = ModPow2(T, desc[1].SliceType, inputs[1], Cardinality(desc[1].Mask))
    /\ (pc = "Pattern::decode(other encode)" /\ HoldsField(desc[1])
          /\ desc[1].Mask \cap desc[2].Mask = {})
          => result = FieldValue(T, desc[2], value)

=============================================================================
